---- MODULE Spec2Model ----
(***************************************************************************)
(* A model of the keyboard layer of alc-rs: the grid of KeycodeKey cells   *)
(* (src/keyboard/layer.rs), its accessors, its mirror-position lookup, its  *)
(* constrained randomization and its parser; of the conversion of text to   *)
(* keycodes (src/text_processor/keycode.rs); and of the genetic search that *)
(* the options of src/optimizer/config.rs configure.                        *)
(***************************************************************************)
EXTENDS Integers, Sequences, FiniteSets, TLC

VARIABLES
    R,          \* const generic R of Layer<R, C, K>
    C,          \* const generic C of Layer<R, C, K>
    layer,      \* the Layer's field `layer`: an Array2D
    before,     \* the Array2D as it was when the last operation started
    op,         \* the last operation and its inputs
    result,     \* what the last operation returned
    calls,      \* number of operations performed on this layer
    ga          \* the genetic search: its options, phase, population and record

vars == <<R, C, layer, before, op, result, calls, ga>>

----------------------------------------------------------------------------
(* Bounds of the model *)

\* operations performed on one layer in one behaviour
MaxCalls == 2

\* the instantiations Layer::<R, C, _> explored (odd and even C, one and two rows)
Shapes == {<<1, 1>>, <<1, 2>>, <<2, 2>>, <<1, 3>>, <<2, 3>>}

\* the valid_keycodes vectors handed to randomize
CandidateLists == {<< >>, <<"_E">>, <<"_A", "_E">>}

----------------------------------------------------------------------------
(* Results *)

Ok(v) == [tag |-> "Ok", value |-> v]
Err(e) == [tag |-> "Err", err |-> e]
Panic == [tag |-> "Panic"]
Unit == "()"

DimensionMismatch == [kind |-> "DimensionMismatch"]
IndicesOutOfBounds(r, c) == [kind |-> "IndicesOutOfBounds", a |-> r, b |-> c]
RowMismatchError(r1, r2) == [kind |-> "RowMismatchError", r1 |-> r1, r2 |-> r2]
ColMismatchError(c1, c2) == [kind |-> "ColMismatchError", c1 |-> c1, c2 |-> c2]
InvalidKeyFromString(s) == [kind |-> "InvalidKeyFromString", s |-> s]
SymmetryError(r1, c1, r2, c2) == [kind |-> "SymmetryError", r1 |-> r1, c1 |-> c1, r2 |-> r2, c2 |-> c2]

----------------------------------------------------------------------------
(* Keys *)

Keycode == {"_NO", "_A", "_B", "_C", "_D", "_E", "_SFT", "_PLACEHOLDER"}

\* the variants' names, as sequences of characters
KeycodeText == [k \in Keycode |->
    CASE k = "_NO" -> <<"_", "N", "O">> [] k = "_A" -> <<"_", "A">> [] k = "_B" -> <<"_", "B">> [] k = "_C" -> <<"_", "C">>
      [] k = "_D" -> <<"_", "D">> [] k = "_E" -> <<"_", "E">> [] k = "_SFT" -> <<"_", "S", "F", "T">> [] k = "_PLACEHOLDER" -> <<"_", "P", "L", "A", "C", "E", "H", "O", "L", "D", "E", "R">>]

\* Keycode::try_from(&str): the variant of that name
Keycode_try_from(s) ==
    IF \E k \in Keycode : KeycodeText[k] = s
    THEN Ok(CHOOSE k \in Keycode : KeycodeText[k] = s)
    ELSE Err([kind |-> "KeycodeParseError", s |-> s])

\* KeycodeKey::from_keycode: a key of that value, moveable and not symmetric
from_keycode(k) == [value |-> k, is_moveable |-> TRUE, is_symmetric |-> FALSE]

\* LayoutPosition::for_layer(row, col)
for_layer(r, c) == [layer_index |-> 0, row_index |-> r, col_index |-> c]

----------------------------------------------------------------------------
(* Array2D (crate array2d), rows kept as a sequence of sequences; the code's *)
(* indices are 0-based                                                       *)

Array2D_filled_with(e, nr, nc) == [num_rows |-> nr, num_columns |-> nc, rows |-> [i \in 1..nr |-> [j \in 1..nc |-> e]]]

\* Array2D::from_rows: the rows must all have the length of the first one
Array2D_from_rows(elements) ==
    LET row_len == IF Len(elements) > 0 THEN Len(elements[1]) ELSE 0
    IN  IF \A i \in 1..Len(elements) : Len(elements[i]) = row_len
        THEN Ok([num_rows |-> Len(elements), num_columns |-> row_len, rows |-> elements])
        ELSE Err(DimensionMismatch)

Array2D_in_bounds(a, r, c) == r >= 0 /\ r < a.num_rows /\ c >= 0 /\ c < a.num_columns

----------------------------------------------------------------------------
(* Layer<R, C, K> *)

from_rows(elements) == Array2D_from_rows(elements)

get(self, r, c) ==
    IF Array2D_in_bounds(self, r, c)
    THEN Ok(self.rows[r + 1][c + 1])
    ELSE Err(IndicesOutOfBounds(r, c))

\* variant: the element is written to a clone of the grid, which is dropped
set_layer_on_clone(self, row, col, element) == self

\* the layer after set(row, col, element), and what set returns
set_layer(self, row, col, element) ==
    IF Array2D_in_bounds(self, row, col)
    THEN [self EXCEPT !.rows[row + 1][col + 1] = element]
    ELSE self

\* variant: the grid's answer is dropped and Ok(()) returned
set_result_always_ok(self, row, col) == Ok(Unit)

set_result(self, row, col) ==
    IF Array2D_in_bounds(self, row, col) THEN Ok(Unit) ELSE Err(IndicesOutOfBounds(row, col))

get_from_layout_position(self, l) == get(self, l.row_index, l.col_index)

num_rows == R

num_columns == C

\* variant: the position is rebuilt with for_layer, which drops the layer index
symmetric_position_layer_zero(l) == for_layer(l.row_index, (num_columns - 1) - l.col_index)

\* variant: off by one, num_cols - orig_col
symmetric_position_off_by_one(l) == [layer_index |-> l.layer_index, row_index |-> l.row_index, col_index |-> num_columns - l.col_index]

(* usize arithmetic: a negative col_index stands for the wrapped value      *)
(* 2^64 + col_index a release build computes                                *)
symmetric_position(l) ==
    LET num_cols == num_columns
        orig_row == l.row_index
        orig_col == l.col_index
        symm_col == (num_cols - 1) - orig_col
    IN  [layer_index |-> l.layer_index, row_index |-> orig_row, col_index |-> symm_col]

init_blank == Array2D_filled_with(from_keycode("_NO"), R, C)

(* Variants of the loop body, each with one of its branches changed *)

\* the mirror of a symmetric cell is not looked at
visit_unchecked_mirror(self, i, j) ==
    LET got == get(self, i, j)
    IN  IF got.tag # "Ok" THEN [kind |-> "Panic"]
        ELSE IF got.value.is_symmetric \/ ~got.value.is_moveable
        THEN [kind |-> "Continue"]
        ELSE [kind |-> "Replace"]

\* the is_moveable test of line 104 is missing
visit_ignores_moveable(self, i, j) ==
    LET got == get(self, i, j)
    IN  IF got.tag # "Ok" THEN [kind |-> "Panic"]
        ELSE
        LET key == got.value
            symm_got == get_from_layout_position(self, symmetric_position(for_layer(i, j)))
        IN  IF key.is_symmetric
            THEN IF symm_got.tag # "Ok" THEN [kind |-> "Panic"]
                 ELSE IF ~symm_got.value.is_symmetric
                 THEN [kind |-> "Return", err |-> SymmetryError(i, j, i, (C - 1) - j)]
                 ELSE [kind |-> "Continue"]
            ELSE [kind |-> "Replace"]

\* the `continue` of line 101 is missing: a validated symmetric cell falls through
visit_replaces_symmetric(self, i, j) ==
    LET got == get(self, i, j)
    IN  IF got.tag # "Ok" THEN [kind |-> "Panic"]
        ELSE
        LET key == got.value
            symm_got == get_from_layout_position(self, symmetric_position(for_layer(i, j)))
        IN  IF key.is_symmetric /\ symm_got.tag # "Ok" THEN [kind |-> "Panic"]
            ELSE IF key.is_symmetric /\ ~symm_got.value.is_symmetric
            THEN [kind |-> "Return", err |-> SymmetryError(i, j, i, (C - 1) - j)]
            ELSE IF ~key.is_moveable
            THEN [kind |-> "Continue"]
            ELSE [kind |-> "Replace"]

(* randomize, lines 92-106: what the loop body decides for cell (i, j)      *)
(* before any replacement: a panic of an unwrap, the SymmetryError return,  *)
(* a `continue`, or falling through to the replacement of line 107.         *)
visit(self, i, j) ==
    LET got == get(self, i, j)
    IN  IF got.tag # "Ok" THEN [kind |-> "Panic"]
        ELSE
        LET key == got.value
            lp == for_layer(i, j)
        IN  IF key.is_symmetric
            THEN LET symm_lp == symmetric_position(lp)
                     symm_got == get_from_layout_position(self, symm_lp)
                 IN  IF symm_got.tag # "Ok" THEN [kind |-> "Panic"]
                     ELSE IF ~symm_got.value.is_symmetric
                     THEN [kind |-> "Return", err |-> SymmetryError(i, j, symm_lp.row_index, symm_lp.col_index)]
                     ELSE [kind |-> "Continue"]
            ELSE IF ~key.is_moveable
            THEN [kind |-> "Continue"]
            ELSE [kind |-> "Replace"]

\* variant: the loops are nested the other way round, columns outside
RECURSIVE randomize_from_column_major(_, _, _, _)
randomize_from_column_major(self, k, picks, valid_keycodes) ==
    IF k >= R * C
    THEN {[layer |-> self, result |-> Ok(Unit), picks |-> picks]}
    ELSE
    LET i == k % R
        j == k \div R
        v == visit(self, i, j)
    IN  CASE v.kind = "Panic" -> {[layer |-> self, result |-> Panic, picks |-> picks]}
          [] v.kind = "Return" -> {[layer |-> self, result |-> Err(v.err), picks |-> picks]}
          [] v.kind = "Continue" -> randomize_from_column_major(self, k + 1, picks, valid_keycodes)
          [] v.kind = "Replace" ->
                IF Len(valid_keycodes) > 0
                THEN UNION {randomize_from_column_major(set_layer(self, i, j, from_keycode(valid_keycodes[p])),
                                                        k + 1, Append(picks, p), valid_keycodes)
                            : p \in 1..Len(valid_keycodes)}
                ELSE randomize_from_column_major(self, k + 1, picks, valid_keycodes)

\* variant: `choose` is called at the top of the loop body, for skipped cells too
RECURSIVE randomize_from_eager_choose(_, _, _, _)
randomize_from_eager_choose(self, k, picks, valid_keycodes) ==
    IF k >= R * C
    THEN {[layer |-> self, result |-> Ok(Unit), picks |-> picks]}
    ELSE
    LET i == k \div C
        j == k % C
        v == visit(self, i, j)
        drawn == IF Len(valid_keycodes) > 0 THEN {Append(picks, p) : p \in 1..Len(valid_keycodes)} ELSE {picks}
    IN  CASE v.kind = "Panic" -> {[layer |-> self, result |-> Panic, picks |-> picks]}
          [] v.kind = "Return" -> {[layer |-> self, result |-> Err(v.err), picks |-> q] : q \in drawn}
          [] v.kind = "Continue" -> UNION {randomize_from_eager_choose(self, k + 1, q, valid_keycodes) : q \in drawn}
          [] v.kind = "Replace" ->
                IF Len(valid_keycodes) > 0
                THEN UNION {randomize_from_eager_choose(set_layer(self, i, j, from_keycode(valid_keycodes[q[Len(q)]])),
                                                        k + 1, q, valid_keycodes)
                            : q \in drawn}
                ELSE randomize_from_eager_choose(self, k + 1, picks, valid_keycodes)

(* randomize: the cells are visited in row-major order, k = i * C + j.  The  *)
(* rng is any source of choices: every element of valid_keycodes can be the  *)
(* one `choose` returns, and `picks` records the indices chosen so far, one  *)
(* per call of `choose` that consumed the rng.  The value is the set of      *)
(* outcomes [layer, result, picks].                                          *)
RECURSIVE randomize_from(_, _, _, _)
randomize_from(self, k, picks, valid_keycodes) ==
    IF k >= R * C
    THEN {[layer |-> self, result |-> Ok(Unit), picks |-> picks]}
    ELSE
    LET i == k \div C
        j == k % C
        v == visit(self, i, j)
    IN  CASE v.kind = "Panic" -> {[layer |-> self, result |-> Panic, picks |-> picks]}
          [] v.kind = "Return" -> {[layer |-> self, result |-> Err(v.err), picks |-> picks]}
          [] v.kind = "Continue" -> randomize_from(self, k + 1, picks, valid_keycodes)
          [] v.kind = "Replace" ->
                IF Len(valid_keycodes) > 0
                THEN UNION {randomize_from(set_layer(self, i, j, from_keycode(valid_keycodes[p])),
                                           k + 1, Append(picks, p), valid_keycodes)
                            : p \in 1..Len(valid_keycodes)}
                ELSE randomize_from(self, k + 1, picks, valid_keycodes)

\* variant: the grid is put back as it was when an error is returned
randomize_restoring(self, valid_keycodes) ==
    {[o EXCEPT !.layer = IF o.result.tag = "Err" THEN self ELSE o.layer] : o \in randomize_from(self, 0, << >>, valid_keycodes)}

randomize(self, valid_keycodes) == randomize_from(self, 0, << >>, valid_keycodes)

----------------------------------------------------------------------------
(* Strings are sequences of one-character strings *)

\* str::split(sep): the pieces between the separators, empty ones included
RECURSIVE split_from(_, _, _, _, _)
split_from(s, i, cur, parts, sep) ==
    IF i > Len(s) THEN Append(parts, cur)
    ELSE IF s[i] = sep THEN split_from(s, i + 1, << >>, Append(parts, cur), sep)
    ELSE split_from(s, i + 1, Append(cur, s[i]), parts, sep)

split(s, sep) == split_from(s, 1, << >>, << >>, sep)

is_whitespace(ch) == ch \in {" ", "\t", "\n"}

\* s.trim().len() > 0
trim_len_positive(s) == \E i \in 1..Len(s) : ~is_whitespace(s[i])

\* str::split_whitespace(): the maximal runs of non-whitespace characters
RECURSIVE split_whitespace_from(_, _, _, _)
split_whitespace_from(s, i, cur, parts) ==
    IF i > Len(s) THEN (IF cur = << >> THEN parts ELSE Append(parts, cur))
    ELSE IF is_whitespace(s[i])
    THEN split_whitespace_from(s, i + 1, << >>, IF cur = << >> THEN parts ELSE Append(parts, cur))
    ELSE split_whitespace_from(s, i + 1, Append(cur, s[i]), parts)

split_whitespace(s) == split_whitespace_from(s, 1, << >>, << >>)

\* char::to_digit(10): -1 stands for None
to_digit(ch) ==
    CASE ch = "0" -> 0 [] ch = "1" -> 1 [] ch = "2" -> 2 [] ch = "3" -> 3 [] ch = "4" -> 4
      [] ch = "5" -> 5 [] ch = "6" -> 6 [] ch = "7" -> 7 [] ch = "8" -> 8 [] ch = "9" -> 9
      [] OTHER -> -1

----------------------------------------------------------------------------
(* TryFrom<&str> for Layer<R, C, KeycodeKey> *)

\* variant: the two flag characters are read in the other order
parse_flags_swapped(key, flags) ==
    IF to_digit(flags[1]) < 0 \/ to_digit(flags[2]) < 0 THEN Panic
    ELSE Ok([key EXCEPT !.is_moveable = to_digit(flags[2]) # 0, !.is_symmetric = to_digit(flags[1]) # 0])

\* lines 150-155: the two flag characters, each unwrapped from to_digit(10)
parse_flags(key, flags) ==
    IF to_digit(flags[1]) < 0 THEN Panic
    ELSE IF to_digit(flags[2]) < 0 THEN Panic
    ELSE Ok([key EXCEPT !.is_moveable = to_digit(flags[1]) # 0, !.is_symmetric = to_digit(flags[2]) # 0])

(* lines 131-158: one token `col` of a row.  key_details is the iterator    *)
(* col.split("_"), `at` the index of the item its next call of next() gives *)
parse_key(col) ==
    LET key == from_keycode("_NO")
        key_details == split(col, "_")
        underscore == SubSeq(col, 1, 1) = <<"_">>
        key_value == IF underscore THEN Ok("_NO") ELSE Keycode_try_from(<<"_">> \o key_details[1])
        at == IF underscore THEN 3 ELSE 2
    IN  IF key_value.tag # "Ok" THEN key_value
        ELSE IF at > Len(key_details) THEN Err(InvalidKeyFromString(col))
        ELSE IF Len(key_details[at]) # 2 THEN Err(InvalidKeyFromString(col))
        ELSE parse_flags([key EXCEPT !.value = key_value.value], key_details[at])

\* lines 130-160: the tokens of row i from token j on, written into the layer
RECURSIVE parse_cols(_, _, _, _)
parse_cols(self, i, cols, j) ==
    IF j >= Len(cols) THEN Ok(self)
    ELSE LET key == parse_key(cols[j + 1])
         IN  IF key.tag # "Ok" THEN key
             ELSE parse_cols(set_layer(self, i, j, key.value), i, cols, j + 1)

\* lines 125-161: the rows from row i on
RECURSIVE parse_rows(_, _, _)
parse_rows(self, rows, i) ==
    IF i >= Len(rows) THEN Ok(self)
    ELSE LET cols == split_whitespace(rows[i + 1])
         IN  IF Len(cols) # C THEN Err(ColMismatchError(C, Len(cols)))
             ELSE LET done == parse_cols(self, i, cols, 0)
                  IN  IF done.tag # "Ok" THEN done ELSE parse_rows(done.value, rows, i + 1)

try_from(layer_string) ==
    LET rows == SelectSeq(split(layer_string, "\n"), trim_len_positive)
    IN  IF Len(rows) # R THEN Err(RowMismatchError(R, Len(rows)))
        ELSE parse_rows(init_blank, rows, 0)

(* Display for KeyboardError: the format string and the values it prints *)
fmt(e) ==
    CASE e.kind = "SymmetryError" ->
            [text |-> "Position ({}, {}) is marked as symmetric but its corresponding symmetric position ({}, {}) is not.",
             args |-> <<e.r1, e.c1, e.r2, e.c2>>]
      [] e.kind = "RowMismatchError" ->
            [text |-> "Expected {} rows but found {} rows.", args |-> <<e.r1, e.r1>>]
      [] e.kind = "ColMismatchError" ->
            [text |-> "Expected {} rows but found {} rows.", args |-> <<e.c1, e.c2>>]
      [] e.kind = "InvalidKeyFromString" ->
            [text |-> "{} cannot be parsed into a KeycodeKey.", args |-> <<e.s>>]

----------------------------------------------------------------------------
(* The layer under randomization.  A layer starts as init_blank() with any  *)
(* flags written through get_mut(r, c).set_is_moveable / set_is_symmetric.  *)

Cells == (0..(R - 1)) \X (0..(C - 1))

FlagPairs == BOOLEAN \X BOOLEAN

with_flags(self, f) == [self EXCEPT !.rows = [i \in 1..self.num_rows |-> [j \in 1..self.num_columns |-> [self.rows[i][j] EXCEPT !.is_moveable = f[<<i - 1, j - 1>>][1], !.is_symmetric = f[<<i - 1, j - 1>>][2]]]]]

NoOp == [name |-> "new"]

\* no genetic search is under way
NoSearch == [phase |-> "None"]

Init ==
    /\ \E s \in Shapes : R = s[1] /\ C = s[2]
    /\ \E f \in [Cells -> FlagPairs] : layer = with_flags(init_blank, f)
    /\ before = layer
    /\ op = NoOp
    /\ result = Ok(Unit)
    /\ calls = 0
    /\ ga = NoSearch

Randomize ==
    /\ calls < MaxCalls
    /\ \E valid_keycodes \in CandidateLists :
         \E out \in randomize(layer, valid_keycodes) :
            /\ layer' = out.layer
            /\ result' = out.result
            /\ op' = [name |-> "randomize", valid_keycodes |-> valid_keycodes, picks |-> out.picks]
    /\ before' = layer
    /\ calls' = calls + 1
    /\ UNCHANGED <<R, C, ga>>

Next == Randomize

Spec == Init /\ [][Next]_vars

----------------------------------------------------------------------------
(* The accessors: get, get_mut().set_is_*, set and symmetric_position on a  *)
(* layer built by init_blank(), with indices up to one past the last row    *)
(* and column.                                                              *)

\* the elements handed to set
Elements == {from_keycode("_B"), [value |-> "_D", is_moveable |-> FALSE, is_symmetric |-> TRUE]}

\* the writes made through the reference get_mut returns
Writes == {[field |-> "is_symmetric", to |-> TRUE], [field |-> "is_moveable", to |-> FALSE]}

LayerIndices == {0, 1}

write_key(key, w) ==
    IF w.field = "is_symmetric" THEN [key EXCEPT !.is_symmetric = w.to] ELSE [key EXCEPT !.is_moveable = w.to]

InitAccess ==
    /\ \E s \in Shapes : R = s[1] /\ C = s[2]
    /\ layer = init_blank
    /\ before = layer
    /\ op = NoOp
    /\ result = Ok(Unit)
    /\ calls = 0
    /\ ga = NoSearch

Get ==
    /\ calls < MaxCalls
    /\ \E r \in 0..R, c \in 0..C :
         /\ op' = [name |-> "get", r |-> r, c |-> c]
         /\ result' = get(layer, r, c)
    /\ before' = layer
    /\ calls' = calls + 1
    /\ UNCHANGED <<R, C, layer, ga>>

\* get_mut(r, c), and on Ok a write through the reference it returned
GetMut ==
    /\ calls < MaxCalls
    /\ \E r \in 0..R, c \in 0..C, w \in Writes :
         LET got == get(layer, r, c)
         IN  /\ op' = [name |-> "get_mut", r |-> r, c |-> c, write |-> w]
             /\ result' = got
             /\ layer' = IF got.tag = "Ok" THEN set_layer(layer, r, c, write_key(got.value, w)) ELSE layer
    /\ before' = layer
    /\ calls' = calls + 1
    /\ UNCHANGED <<R, C, ga>>

Set ==
    /\ calls < MaxCalls
    /\ \E row \in 0..R, col \in 0..C, element \in Elements :
         /\ op' = [name |-> "set", r |-> row, c |-> col, element |-> element]
         /\ result' = set_result(layer, row, col)
         /\ layer' = set_layer(layer, row, col, element)
    /\ before' = layer
    /\ calls' = calls + 1
    /\ UNCHANGED <<R, C, ga>>

(* symmetric_position(l).  When orig_col exceeds num_cols - 1 the usize      *)
(* subtraction overflows: a debug build panics, a release build wraps.       *)
SymmetricPosition ==
    /\ calls < MaxCalls
    /\ \E li \in LayerIndices, r \in 0..R, c \in 0..C :
         LET l == [layer_index |-> li, row_index |-> r, col_index |-> c]
             p == symmetric_position(l)
         IN  /\ op' = [name |-> "symmetric_position", l |-> l]
             /\ result' \in (IF p.col_index < 0 THEN {Panic, Ok(p)} ELSE {Ok(p)})
    /\ before' = layer
    /\ calls' = calls + 1
    /\ UNCHANGED <<R, C, layer, ga>>

NextAccess == Get \/ GetMut \/ Set \/ SymmetricPosition

SpecAccess == InitAccess /\ [][NextAccess]_vars

----------------------------------------------------------------------------
(* Construction with Layer::<R, C, K>::from_rows(elements) *)

\* most rows, and longest row, of the input of from_rows
MaxRowsIn == 3
MaxRowLen == 3

\* the key written at row i, column j of an input
KeyAt(i, j) == IF (i + j) % 2 = 0 THEN from_keycode("_A") ELSE [value |-> "_C", is_moveable |-> FALSE, is_symmetric |-> FALSE]

\* rectangular and ragged inputs alike
RowInputs == UNION {{[i \in 1..n |-> [j \in 1..len[i] |-> KeyAt(i, j)]] : len \in [1..n -> 0..MaxRowLen]} : n \in 0..MaxRowsIn}

FromRows ==
    /\ op = NoOp
    /\ \E elements \in RowInputs :
         LET made == from_rows(elements)
         IN  /\ op' = [name |-> "from_rows", elements |-> elements]
             /\ result' = made
             /\ layer' = IF made.tag = "Ok" THEN made.value ELSE layer
    /\ before' = layer
    /\ calls' = calls + 1
    /\ UNCHANGED <<R, C, ga>>

NextFromRows == FromRows

SpecFromRows == InitAccess /\ [][NextFromRows]_vars

----------------------------------------------------------------------------
(* Parsing: Layer::<R, C, KeycodeKey>::try_from(layer_string).  The input   *)
(* is written from a list of lines, each a list of tokens (none for a blank *)
(* line): a line is indented with a tab, its tokens are separated by one    *)
(* space, and every line ends with a newline.                               *)

ParseShapes == {<<1, 1>>, <<1, 2>>, <<2, 1>>, <<2, 2>>, <<1, 3>>}

\* tokens of the form {VALUE}_{moveable}{symmetric}, "_" as VALUE for the sentinel
GoodTokens == {<<"A", "_", "1", "1">>, <<"B", "_", "1", "0">>, <<"_", "_", "0", "1">>, <<"S", "F", "T", "_", "0", "0">>}

\* no flag part, a flag part of one and of three characters, an underscore
\* marker with a single part after it, a flag that is no digit, a flag digit
\* other than 0 and 1
BadTokens == {<<"A">>, <<"A", "_", "1">>, <<"A", "_", "1", "1", "0">>, <<"_", "0", "1">>, <<"A", "_", "1", "x">>, <<"A", "_", "1", "2">>}

LineCounts == 0..3
TokenCounts == 0..3
TokenTotals == 0..4

RECURSIVE sum_to(_, _)
sum_to(lens, n) == IF n = 0 THEN 0 ELSE lens[n] + sum_to(lens, n - 1)

\* how many tokens each line holds
LineLengths == UNION {{lens \in [1..n -> TokenCounts] : sum_to(lens, n) \in TokenTotals} : n \in LineCounts}

\* t tokens, at most one of them malformed
TokenLists(t) ==
    LET good == [1..t -> GoodTokens]
    IN  good \cup {[f EXCEPT ![k] = b] : f \in good, k \in 1..t, b \in BadTokens}

cut(flat, lens) == [i \in 1..Len(lens) |-> SubSeq(flat, sum_to(lens, i - 1) + 1, sum_to(lens, i))]

RECURSIVE join(_, _)
join(tokens, sep) ==
    IF Len(tokens) = 0 THEN << >>
    ELSE IF Len(tokens) = 1 THEN tokens[1]
    ELSE tokens[1] \o sep \o join(Tail(tokens), sep)

RECURSIVE render(_)
render(lines) ==
    IF Len(lines) = 0 THEN << >>
    ELSE <<"\t">> \o join(lines[1], <<" ">>) \o <<"\n">> \o render(Tail(lines))

InitParse ==
    /\ \E s \in ParseShapes : R = s[1] /\ C = s[2]
    /\ layer = init_blank
    /\ before = layer
    /\ op = NoOp
    /\ result = Ok(Unit)
    /\ calls = 0
    /\ ga = NoSearch

TryFrom ==
    /\ op = NoOp
    /\ \E lens \in LineLengths :
         \E flat \in TokenLists(sum_to(lens, Len(lens))) :
            LET lines == cut(flat, lens)
                layer_string == render(lines)
                parsed == try_from(layer_string)
            IN  /\ op' = [name |-> "try_from", lines |-> lines, layer_string |-> layer_string]
                /\ result' = parsed
                /\ layer' = IF parsed.tag = "Ok" THEN parsed.value ELSE layer
    /\ before' = layer
    /\ calls' = calls + 1
    /\ UNCHANGED <<R, C, ga>>

NextParse == TryFrom

SpecParse == InitParse /\ [][NextParse]_vars

----------------------------------------------------------------------------
(* Properties of randomize, stated on the state an operation leaves:        *)
(* `before` is the grid the call started from, `layer` the grid it left.    *)

AfterRandomize == op.name = "randomize"

cell(a, p) == a.rows[p[1] + 1][p[2] + 1]

mirror(p) == <<p[1], (C - 1) - p[2]>>

\* the symmetric cells whose mirror cell is not symmetric
Unpaired(a) == {p \in Cells : cell(a, p).is_symmetric /\ ~cell(a, mirror(p)).is_symmetric}

\* C1: randomize returns a SymmetryError, not Ok, whenever some symmetric cell's
\* mirror (same row, column C-1-col) is not symmetric; it returns Ok only if
\* every symmetric cell's mirror is symmetric too.
C1_UnpairedSymmetricFails ==
    AfterRandomize =>
        /\ Unpaired(before) # {} => (result.tag = "Err" /\ result.err.kind = "SymmetryError")
        /\ result.tag = "Ok" => Unpaired(before) = {}

\* a 2x3 layer whose only unpaired symmetric cell is in the second row, after
\* cells of the first row were replaced: randomize returned the error
C1_Witness ==
    /\ AfterRandomize /\ R = 2 /\ C = 3
    /\ Unpaired(before) # {}
    /\ \A p \in Unpaired(before) : p[1] = 1
    /\ layer # before
    /\ result.tag = "Err"

\* C2: a cell with moveable = false holds the same value and flags after
\* randomize as before it, whatever randomize returns.
C2_FixedCellsUnchanged ==
    AfterRandomize =>
        \A p \in Cells : ~cell(before, p).is_moveable => cell(layer, p) = cell(before, p)

\* randomize returned an error after it had replaced a cell, and a fixed,
\* non-symmetric cell kept its key
C2_Witness ==
    /\ AfterRandomize /\ result.tag = "Err"
    /\ Len(op.valid_keycodes) > 0
    /\ \E p \in Cells : ~cell(before, p).is_moveable /\ ~cell(before, p).is_symmetric
    /\ layer # before

\* C3: when randomize returns Ok, every symmetric cell holds the value it held
\* before the call, also a moveable one with candidates at hand.
C3_SymmetricCellsKept ==
    (AfterRandomize /\ result.tag = "Ok") =>
        \A p \in Cells : cell(before, p).is_symmetric => cell(layer, p).value = cell(before, p).value

\* a moveable symmetric pair kept its values while a third cell was replaced
C3_Witness ==
    /\ AfterRandomize /\ result.tag = "Ok"
    /\ Len(op.valid_keycodes) > 0
    /\ \E p \in Cells : /\ cell(before, p).is_symmetric /\ cell(before, p).is_moveable
                         /\ mirror(p) # p
                         /\ cell(before, p).value # op.valid_keycodes[1]
    /\ layer # before

----------------------------------------------------------------------------
(* Properties of the accessors and of construction *)

AfterSymmetricPosition == op.name = "symmetric_position"

\* C4: for every position p with column index below C,
\* symmetric_position(symmetric_position(p)) = p.
C4_SymmetricPositionInvolution ==
    (AfterSymmetricPosition /\ op.l.col_index < C) =>
        (result.tag = "Ok" /\ symmetric_position(result.value) = op.l)

\* a position of layer 1, off the middle column of a 3-column layer, was mirrored
C4_Witness ==
    /\ AfterSymmetricPosition /\ C = 3
    /\ op.l.layer_index = 1 /\ op.l.col_index = 0
    /\ result.tag = "Ok" /\ result.value.col_index = 2

\* C5: symmetric_position of (layer, row, col) is (layer, row, C-1-col): only
\* the column is mirrored, and the layer's grid is not modified.
C5_SymmetricPositionMirrorsColumn ==
    (AfterSymmetricPosition /\ op.l.col_index < C) =>
        /\ result = Ok([layer_index |-> op.l.layer_index, row_index |-> op.l.row_index, col_index |-> (C - 1) - op.l.col_index])
        /\ layer = before

\* position (0, 0) of a 2x3 layer was mapped to (0, 2)
C5_Witness ==
    /\ AfterSymmetricPosition /\ R = 2 /\ C = 3
    /\ op.l = [layer_index |-> 0, row_index |-> 0, col_index |-> 0]
    /\ result = Ok([layer_index |-> 0, row_index |-> 0, col_index |-> 2])

\* C6: from_rows fails if the rows differ in length or their number differs
\* from R; it returns a layer only for input of the declared shape R x C, so
\* that num_rows() and num_columns() are the dimensions of the stored grid.
C6_FromRowsChecksShape ==
    op.name = "from_rows" =>
        LET declared == Len(op.elements) = R /\ \A i \in 1..Len(op.elements) : Len(op.elements[i]) = C
        IN  /\ result.tag = "Ok" <=> declared
            /\ result.tag = "Ok" => (layer.num_rows = num_rows /\ layer.num_columns = num_columns)

AfterAccess == op.name \in {"get", "get_mut", "set"}

OutOfBounds == op.r >= R \/ op.c >= C

\* the cells other than the addressed one are as before
OthersKept == \A p \in Cells : p # <<op.r, op.c>> => cell(layer, p) = cell(before, p)

----------------------------------------------------------------------------
(* Properties of parsing, stated on the lines and tokens the input was      *)
(* written from                                                             *)

AfterTryFrom == op.name = "try_from"

has_tokens(line) == Len(line) > 0

\* the lines that are not blank
TokenRows == SelectSeq(op.lines, has_tokens)

\* the rows whose number of tokens is not C
Miscounted == {i \in 1..Len(TokenRows) : Len(TokenRows[i]) # C}

FirstMiscounted == CHOOSE i \in Miscounted : \A k \in Miscounted : i <= k

\* R rows of C tokens each
Shaped == Len(TokenRows) = R /\ Miscounted = {}

\* {VALUE}_{moveable}{symmetric}: a key name or "_", an underscore, two of the digits 0 and 1
WellFormedToken(tok) ==
    /\ Len(tok) >= 4
    /\ tok[Len(tok)] \in {"0", "1"} /\ tok[Len(tok) - 1] \in {"0", "1"} /\ tok[Len(tok) - 2] = "_"
    /\ LET name == SubSeq(tok, 1, Len(tok) - 3)
       IN  name = <<"_">> \/ \E k \in Keycode : KeycodeText[k] = <<"_">> \o name

MalformedTokens == {TokenRows[i][j] : i \in 1..Len(TokenRows), j \in 1..C} \ {tok \in GoodTokens \cup BadTokens : WellFormedToken(tok)}

\* the key a well-formed token stands for
KeyOf(tok) ==
    [value |-> IF tok[1] = "_" THEN "_NO"
               ELSE CHOOSE k \in Keycode : KeycodeText[k] = <<"_">> \o SubSeq(tok, 1, Len(tok) - 3),
     is_moveable |-> tok[Len(tok) - 1] = "1",
     is_symmetric |-> tok[Len(tok)] = "1"]

\* C8: parsing fails with a row-mismatch error naming R and the number of
\* non-blank lines when that number is not R, and otherwise with a
\* column-mismatch error naming C and the token count of the first row whose
\* token count is not C; the error's message is what names the counts.
C8_MismatchNamesBothCounts ==
    AfterTryFrom =>
        /\ Len(TokenRows) # R =>
              /\ result = Err(RowMismatchError(R, Len(TokenRows)))
              /\ fmt(result.err).args = <<R, Len(TokenRows)>>
        /\ (Len(TokenRows) = R /\ Miscounted # {}) =>
              /\ result = Err(ColMismatchError(C, Len(TokenRows[FirstMiscounted])))
              /\ fmt(result.err).args = <<C, Len(TokenRows[FirstMiscounted])>>

\* C9: an input of R rows of C tokens with a malformed token is answered
\* with an invalid-token error carrying that token; parsing neither panics
\* nor returns a layer.
C9_MalformedTokenRejected ==
    (AfterTryFrom /\ Shaped /\ MalformedTokens # {}) =>
        \E tok \in MalformedTokens : result = Err(InvalidKeyFromString(tok))

\* C10: parsing R rows of C well-formed tokens yields a layer whose cell
\* (i, j) is the key of the j-th token of the i-th non-blank line: its name
\* (the sentinel for a leading underscore), moveable from the first trailing
\* digit and symmetric from the second.
C10_WellFormedGridParsed ==
    (AfterTryFrom /\ Shaped /\ MalformedTokens = {}) =>
        /\ result.tag = "Ok"
        /\ result.value.num_rows = R /\ result.value.num_columns = C
        /\ \A p \in Cells : cell(result.value, p) = KeyOf(TokenRows[p[1] + 1][p[2] + 1])

\* a 2x2 grid with a blank line between its rows, a sentinel token and a
\* three-letter key name was parsed
C10_Witness ==
    /\ AfterTryFrom /\ R = 2 /\ C = 2 /\ Shaped /\ MalformedTokens = {}
    /\ Len(op.lines) = 3 /\ Len(op.lines[2]) = 0
    /\ result.tag = "Ok"
    /\ cell(result.value, <<1, 0>>) = [value |-> "_NO", is_moveable |-> FALSE, is_symmetric |-> TRUE]
    /\ cell(result.value, <<0, 1>>) = [value |-> "_SFT", is_moveable |-> FALSE, is_symmetric |-> FALSE]
    /\ cell(result.value, <<1, 1>>) = [value |-> "_B", is_moveable |-> TRUE, is_symmetric |-> FALSE]

----------------------------------------------------------------------------
(* Further properties of randomize *)

\* the place of a cell in row-major order
order(p) == p[1] * C + p[2]

\* the cells randomize may replace: moveable and not symmetric
Free(a) == {p \in Cells : cell(a, p).is_moveable /\ ~cell(a, p).is_symmetric}

Candidates == {op.valid_keycodes[n] : n \in 1..Len(op.valid_keycodes)}

\* C11: after an Ok return with candidates at hand every cell that was
\* moveable and not symmetric holds a candidate value; with no candidates
\* every cell keeps its value.
C11_FreeCellsHoldCandidates ==
    AfterRandomize =>
        /\ (result.tag = "Ok" /\ Candidates # {}) =>
              \A p \in Free(before) : cell(layer, p).value \in Candidates
        /\ Candidates = {} => \A p \in Cells : cell(layer, p).value = cell(before, p).value

\* a blank 2x3 layer with one fixed cell got both candidates written, the fixed cell none
C11_Witness ==
    /\ AfterRandomize /\ R = 2 /\ C = 3 /\ result.tag = "Ok"
    /\ op.valid_keycodes = <<"_A", "_E">>
    /\ Cardinality(Free(before)) = 5
    /\ \A p \in Cells : cell(before, p).value = "_NO"
    /\ \E p, q \in Free(before) : cell(layer, p).value = "_A" /\ cell(layer, q).value = "_E"
    /\ \E p \in Cells \ Free(before) : cell(layer, p).value = "_NO"

\* the unpaired symmetric cell that comes first, rows ascending and columns within a row
FirstUnpaired == CHOOSE p \in Unpaired(before) : \A q \in Unpaired(before) : order(p) <= order(q)

\* C12: of several symmetric cells with a non-symmetric mirror randomize
\* reports the first in row-major order, as (row, col) followed by the
\* mirror's (row, C-1-col).
C12_FirstUnpairedReported ==
    (AfterRandomize /\ Unpaired(before) # {}) =>
        result = Err(SymmetryError(FirstUnpaired[1], FirstUnpaired[2], FirstUnpaired[1], (C - 1) - FirstUnpaired[2]))

\* an unpaired cell in each row of a 2x3 layer, the first of them in the last
\* column of the first row: (0, 2) was reported with its mirror (0, 0)
C12_Witness ==
    /\ AfterRandomize /\ R = 2 /\ C = 3
    /\ Unpaired(before) = {<<0, 2>>, <<1, 0>>}
    /\ result = Err(SymmetryError(0, 2, 0, 0))

\* the cells randomize came to before it returned: all of them, or those before the error's cell
Passed ==
    IF result.tag = "Err" THEN {p \in Cells : order(p) < order(<<result.err.r1, result.err.c1>>)} ELSE Cells

\* the n-th free cell among those passed, in row-major order
NthFree(n) == CHOOSE p \in Free(before) \cap Passed : Cardinality({q \in Free(before) \cap Passed : order(q) < order(p)}) = n - 1

\* C13 as stated: every run of randomize on the same layer and candidates
\* that is given the same sequence of choices has this run's result and
\* layer; the rng is drawn from once for each moveable, non-symmetric cell
\* passed, in row-major order, and for no other cell.
C13_OneDrawPerFreeCell ==
    AfterRandomize =>
        /\ \A o \in randomize(before, op.valid_keycodes) :
              o.picks = op.picks => (o.result = result /\ o.layer = layer)
        /\ Len(op.picks) = Cardinality(Free(before) \cap Passed)
        /\ \A n \in 1..Len(op.picks) : cell(layer, NthFree(n)).value = op.valid_keycodes[op.picks[n]]

\* C13, amended: every run of randomize on the same layer and candidates
\* that is given the same sequence of choices has this run's result and
\* layer; with a non-empty candidate list the rng is drawn from once for
\* each moveable, non-symmetric cell passed before the return, in row-major
\* order, and for no other cell; with an empty list it is not drawn from.
C13_ChoicesDecideOutcome ==
    AfterRandomize =>
        /\ \A o \in randomize(before, op.valid_keycodes) :
              o.picks = op.picks => (o.result = result /\ o.layer = layer)
        /\ Len(op.picks) = (IF Candidates = {} THEN 0 ELSE Cardinality(Free(before) \cap Passed))
        /\ \A n \in 1..Len(op.picks) : cell(layer, NthFree(n)).value = op.valid_keycodes[op.picks[n]]

\* three draws on a 2x3 layer, the second one differing from the others,
\* with a skipped cell between the cells drawn for
C13_Witness ==
    /\ AfterRandomize /\ R = 2 /\ C = 3 /\ result.tag = "Ok"
    /\ op.valid_keycodes = <<"_A", "_E">>
    /\ op.picks = <<1, 2, 1>>
    /\ Free(before) = {<<0, 0>>, <<0, 2>>, <<1, 1>>}
    /\ cell(layer, <<0, 0>>).value = "_A" /\ cell(layer, <<0, 2>>).value = "_E" /\ cell(layer, <<1, 1>>).value = "_A"

Flags(a, p) == <<cell(a, p).is_moveable, cell(a, p).is_symmetric>>

\* C16: no call of randomize, successful or not, changes the moveable or the
\* symmetric flag of a cell: step after step every cell keeps the flags it
\* had before the first call.
C16_FlagsNeverChange ==
    [][\A p \in Cells : Flags(layer', p) = Flags(layer, p)]_vars

\* a second call replaced a cell the first call had replaced with another key
C16_Witness ==
    /\ AfterRandomize /\ calls = 2
    /\ \E p \in Free(before) : /\ cell(before, p).value = "_A" /\ cell(layer, p).value = "_E"
                               /\ Flags(layer, p) = <<TRUE, FALSE>>
    /\ \E p \in Cells : Flags(layer, p) = <<FALSE, TRUE>>

\* C17 as stated: when randomize returns a SymmetryError for cell (i, j),
\* every cell at or after (i, j) is unchanged and every moveable,
\* non-symmetric cell before (i, j) holds a candidate value.
C17_PartialReplacementAsStated ==
    (AfterRandomize /\ result.tag = "Err") =>
        /\ \A p \in Cells \ Passed : cell(layer, p) = cell(before, p)
        /\ \A p \in Free(before) \cap Passed : cell(layer, p).value \in Candidates

\* C17, amended: when randomize returns a SymmetryError for cell (i, j),
\* every cell at or after (i, j) is unchanged; if valid_keycodes is not
\* empty every moveable, non-symmetric cell before (i, j) holds a candidate
\* value, and if it is empty no cell is changed.
C17_PartialReplacement ==
    (AfterRandomize /\ result.tag = "Err") =>
        /\ \A p \in Cells \ Passed : cell(layer, p) = cell(before, p)
        /\ Candidates # {} => \A p \in Free(before) \cap Passed : cell(layer, p).value \in Candidates
        /\ Candidates = {} => layer = before

\* an error for cell (1, 0) of a 2x3 layer whose first row was replaced and
\* whose free cell (1, 1), after the error's cell, was not
C17_Witness ==
    /\ AfterRandomize /\ R = 2 /\ C = 3
    /\ result = Err(SymmetryError(1, 0, 1, 2))
    /\ op.valid_keycodes = <<"_E">>
    /\ \A p \in Cells : cell(before, p).value = "_NO"
    /\ {<<0, 0>>, <<0, 1>>, <<0, 2>>, <<1, 1>>} \subseteq Free(before)
    /\ \A p \in {<<0, 0>>, <<0, 1>>, <<0, 2>>} : cell(layer, p).value = "_E"
    /\ cell(layer, <<1, 1>>).value = "_NO"

----------------------------------------------------------------------------
(* text_processor::keycode: characters to keycodes.  A string is the       *)
(* sequence of its characters.                                             *)

MaxStrLen == 3

\* the characters tried: letters with a keycode in both cases, letters
\* without one in both cases, a digit and a space
Chars == {"a", "c", "e", "z", "A", "C", "Z", "1", " "}

\* char::is_uppercase on those characters
is_uppercase(c) == c \in {"A", "C", "Z"}

\* the first character of char::to_lowercase
to_lowercase(c) == CASE c = "A" -> "a" [] c = "C" -> "c" [] c = "Z" -> "z" [] OTHER -> c

\* a Vec<Keycode>
Vec(v) == [tag |-> "Vec", value |-> v]

\* variant: the shift is not pushed
char_to_keycode_no_shift(c) ==
    LET l == to_lowercase(c)
    IN  <<CASE l = "a" -> "_A" [] l = "b" -> "_B" [] l = "c" -> "_C" [] l = "d" -> "_D" [] l = "e" -> "_E"
            [] OTHER -> "_PLACEHOLDER">>

char_to_keycode(c) ==
    LET shifted == IF is_uppercase(c) THEN <<"_SFT">> ELSE << >>
        l == to_lowercase(c)
    IN  Append(shifted,
               CASE l = "a" -> "_A" [] l = "b" -> "_B" [] l = "c" -> "_C" [] l = "d" -> "_D" [] l = "e" -> "_E"
                 [] OTHER -> "_PLACEHOLDER")

\* the loop of string_to_keycode from character n on, keycodes being the vector so far
RECURSIVE string_to_keycode_from(_, _, _)
string_to_keycode_from(s, n, keycodes) ==
    IF n > Len(s) THEN keycodes
    ELSE string_to_keycode_from(s, n + 1, keycodes \o char_to_keycode(s[n]))

string_to_keycode(s) == string_to_keycode_from(s, 1, << >>)

Strings == UNION {[1..n -> Chars] : n \in 0..MaxStrLen}

InitKeycode ==
    /\ R = 1 /\ C = 1
    /\ layer = init_blank
    /\ before = layer
    /\ op = NoOp
    /\ result = Ok(Unit)
    /\ calls = 0
    /\ ga = NoSearch

\* the functions keep no state: one call from the initial state covers them
CharToKeycode ==
    \E c \in Chars :
        /\ op = NoOp
        /\ op' = [name |-> "char_to_keycode", c |-> c]
        /\ result' = Vec(char_to_keycode(c))
        /\ UNCHANGED <<R, C, layer, before, calls, ga>>

StringToKeycode ==
    \E s \in Strings :
        /\ op = NoOp
        /\ op' = [name |-> "string_to_keycode", s |-> s]
        /\ result' = Vec(string_to_keycode(s))
        /\ UNCHANGED <<R, C, layer, before, calls, ga>>

NextKeycode == CharToKeycode \/ StringToKeycode

SpecKeycode == InitKeycode /\ [][NextKeycode]_vars

AfterStringToKeycode == op.name = "string_to_keycode"

\* the uppercase characters among the first n of s
Uppercase(s, n) == {m \in 1..n : is_uppercase(s[m])}

\* where the keycodes of the n-th character of s end in the output
EndOf(s, n) == n + Cardinality(Uppercase(s, n))

\* the keycode of a character that is not uppercase, as char_to_keycode gives it
Single(c) == char_to_keycode(c)[1]

\* C15: string_to_keycode(s) is the keycodes of its characters, in order: an
\* uppercase character gives _SFT and then the keycode of its lowercase
\* form, any other character gives one keycode; the output is as long as
\* the input plus its number of uppercase characters.
C15_StringIsConcatenationOfChars ==
    /\ op.name = "char_to_keycode" =>
          /\ is_uppercase(op.c) =>
                result.value = <<"_SFT", Single(to_lowercase(op.c))>> /\ ~is_uppercase(to_lowercase(op.c))
          /\ ~is_uppercase(op.c) => Len(result.value) = 1 /\ result.value[1] # "_SFT"
    /\ AfterStringToKeycode =>
          /\ Len(result.value) = Len(op.s) + Cardinality(Uppercase(op.s, Len(op.s)))
          /\ Len(result.value) >= Len(op.s)
          /\ \A n \in 1..Len(op.s) :
                LET from == EndOf(op.s, n - 1) + 1
                    to == EndOf(op.s, n)
                IN  SubSeq(result.value, from, to) = char_to_keycode(op.s[n])

\* "aCb"-like input: a lowercase letter, an uppercase one, then a character without a keycode
C15_Witness ==
    /\ AfterStringToKeycode
    /\ op.s = <<"a", "C", "1">>
    /\ result.value = <<"_A", "_SFT", "_C", "_PLACEHOLDER">>

----------------------------------------------------------------------------
(* The genetic search configured by GeneticOptions.  A candidate layout is *)
(* taken as its score (lower is better); fitness_cutoff is in tenths.      *)

MaxGenerations == 3
MaxScore == 2

Scores == 0..MaxScore
PopulationSizes == {1, 2, 3}
FitnessCutoffs == {0, 1, 5, 10}

GeneticOptions == [population_size : PopulationSizes, generation_count : 1..MaxGenerations, fitness_cutoff : FitnessCutoffs]

Last(s) == s[Len(s)]

sort_ascending(population) == SortSeq(population, LAMBDA a, b : a < b)

\* the number of survivors: the fitness_cutoff fraction of the population, rounded, at least 1
survivor_count(options) ==
    LET rounded == (options.fitness_cutoff * options.population_size + 5) \div 10
    IN  IF rounded < 1 THEN 1 ELSE rounded

\* variant: the score recorded is the one at the far end of the sorted population
record_best_from_far_end(recorded, population) == Last(sort_ascending(population))

\* the best-ever score once this generation's scores are known
record_best(recorded, population) ==
    LET best == sort_ascending(population)[1]
    IN  IF recorded = << >> \/ best < Last(recorded) THEN best ELSE Last(recorded)

InitGenetic ==
    /\ R = 1 /\ C = 1
    /\ layer = init_blank
    /\ before = layer
    /\ op = NoOp
    /\ result = Ok(Unit)
    /\ calls = 0
    /\ ga \in {[phase |-> "Initialize", options |-> o, generation |-> 0, population |-> << >>, recorded |-> << >>]
               : o \in GeneticOptions}

\* population_size candidates are built by randomize; their scores can be any
Initialize ==
    /\ ga.phase = "Initialize"
    /\ \E population \in [1..ga.options.population_size -> Scores] :
          ga' = [ga EXCEPT !.phase = "Evaluate", !.population = population]
    /\ UNCHANGED <<R, C, layer, before, op, result, calls>>

\* every candidate is scored and the best-ever score is brought up to date
Evaluate ==
    /\ ga.phase = "Evaluate"
    /\ ga' = [ga EXCEPT !.phase = "Select", !.recorded = Append(@, record_best(@, ga.population))]
    /\ UNCHANGED <<R, C, layer, before, op, result, calls>>

\* the best survivor_count candidates stay, the others are discarded
Select ==
    /\ ga.phase = "Select"
    /\ ga' = [ga EXCEPT !.phase = "Reproduce",
                        !.population = SubSeq(sort_ascending(@), 1, survivor_count(ga.options))]
    /\ UNCHANGED <<R, C, layer, before, op, result, calls>>

\* the population is refilled with mutated clones of survivors; a mutation can give any score
Reproduce ==
    /\ ga.phase = "Reproduce"
    /\ \E children \in [1..(ga.options.population_size - Len(ga.population)) -> Scores] :
          ga' = [ga EXCEPT !.phase = IF ga.generation + 1 >= ga.options.generation_count THEN "Terminate" ELSE "Evaluate",
                           !.generation = @ + 1,
                           !.population = @ \o children]
    /\ UNCHANGED <<R, C, layer, before, op, result, calls>>

\* the best score found across all generations is reported
Terminate ==
    /\ ga.phase = "Terminate"
    /\ ga' = [ga EXCEPT !.phase = "Done"]
    /\ result' = [tag |-> "Best", value |-> Last(ga.recorded)]
    /\ UNCHANGED <<R, C, layer, before, op, calls>>

NextGenetic == Initialize \/ Evaluate \/ Select \/ Reproduce \/ Terminate

SpecGenetic == InitGenetic /\ [][NextGenetic]_vars

\* C14: in the genetic search the best-ever recorded score never increases:
\* no step of the loop, in any generation, leaves it higher than it was,
\* whatever the population size, the cutoff and the scores of the mutants.
C14_BestEverNeverIncreases ==
    [][ga.recorded # << >> => (ga'.recorded # << >> /\ Last(ga'.recorded) <= Last(ga.recorded))]_vars

\* three generations: the second improved on the first, the third was worse
\* than the second and the record stayed; the search reported the record
C14_Witness ==
    /\ ga.phase = "Done"
    /\ Len(ga.recorded) = 3
    /\ ga.recorded[2] < ga.recorded[1]
    /\ ga.recorded[3] = ga.recorded[2]
    /\ \E n \in 1..Len(ga.population) : ga.population[n] > ga.recorded[3]
    /\ result = [tag |-> "Best", value |-> ga.recorded[3]]

====
